---- MODULE Spec2Model ----
(***************************************************************************)
(* Model of extensions/ipynb/src/notebookImagePaste.ts: the base64 encoder *)
(* (encodeBase64), the attachment namer (buildAttachment) and the          *)
(* paste/drop orchestration (buildImageMarkdown).                          *)
(*                                                                         *)
(* JavaScript strings are TLA+ strings; s[i] (0-based) is CharAt(s, i).    *)
(***************************************************************************)
EXTENDS Integers, Sequences, FiniteSets, TLC

VARIABLES
    buffer,     \* encodeBase64: the Uint8Array argument
    padded,     \* encodeBase64: the padded argument
    urlSafe,    \* encodeBase64: the urlSafe argument
    output,     \* encodeBase64: the returned string, Undefined before the call
    cellMeta,   \* cell.metadata of the notebook cell, as the extension host holds it
    ops,        \* the paste/drop operations (invocations of buildImageMarkdown)
    running,    \* the operation inside a synchronous section, or 0
    pasted,     \* history: what the applied operations returned
    raced       \* history: an operation read the cell while an edit was pending

vars == <<buffer, padded, urlSafe, output, cellMeta, ops, running, pasted, raced>>

\* The JavaScript value undefined.
Undefined == "<undefined>"

----------------------------------------------------------------------------
(* Bounds of the model *)

\* Longest byte sequence given to encodeBase64.
MaxLen == 4

\* Value at which the model's appendValue stops growing. In the program it is
\* an IEEE double, for which x + 1 = x from 2^53 on; the model saturates at
\* this smaller value. No terminating run of the model comes near it.
MaxAppend == 8

----------------------------------------------------------------------------
(* Inputs of the model: what a paste or drop event may carry *)

\* Suggested filenames: with an extension, without a '.', a single
\* character, an extension only.
GivenFilenames == {"a.p", "ab", "a", ".p"}

\* A suggested filename that is also the name of a property every object
\* inherits from Object.prototype.
InheritedFilenames == {"valueOf"}

\* Image bytes carried by a transfer.
PayloadBytes == {<<77>>, <<77, 97>>, <<77, 97, 110>>}

\* What the settings, a data transfer and the workspace hold for one operation:
\*   enabled    the provider's setting (experimental.pasteImages.enabled or
\*              experimental.dropImages.enabled) is on
\*   hasItem    dataTransfer.get('image/png') is defined
\*   hasFile    dataItem.asFile() is defined
\*   name       the file's name
\*   bytes      the file's data
\*   cellFound  getCellFromCellDocument finds the document's cell
TransferInputs ==
    { [enabled |-> TRUE, hasItem |-> TRUE, hasFile |-> TRUE, name |-> n, bytes |-> b,
       cellFound |-> TRUE] : n \in GivenFilenames, b \in PayloadBytes }
    \cup
    { [enabled |-> FALSE, hasItem |-> TRUE, hasFile |-> TRUE, name |-> "a.p", bytes |-> <<77>>,
       cellFound |-> TRUE],
      [enabled |-> TRUE, hasItem |-> FALSE, hasFile |-> FALSE, name |-> Undefined, bytes |-> <<>>,
       cellFound |-> TRUE],
      [enabled |-> TRUE, hasItem |-> TRUE, hasFile |-> FALSE, name |-> Undefined, bytes |-> <<>>,
       cellFound |-> TRUE],
      [enabled |-> TRUE, hasItem |-> TRUE, hasFile |-> TRUE, name |-> "", bytes |-> <<77>>,
       cellFound |-> TRUE],
      [enabled |-> TRUE, hasItem |-> TRUE, hasFile |-> TRUE, name |-> "a.p", bytes |-> <<77>>,
       cellFound |-> FALSE] }

\* Transfers of a file whose name Object.prototype defines.
InheritedInputs ==
    { [enabled |-> TRUE, hasItem |-> TRUE, hasFile |-> TRUE, name |-> n, bytes |-> b,
       cellFound |-> TRUE] : n \in InheritedFilenames, b \in PayloadBytes }

NoInput ==
    [enabled |-> FALSE, hasItem |-> FALSE, hasFile |-> FALSE, name |-> Undefined, bytes |-> <<>>,
     cellFound |-> FALSE]

----------------------------------------------------------------------------
(* JavaScript primitives used by the source *)

\* Largest value of a Uint8Array element.
MaxByte == 255

Byte == 0..MaxByte

RECURSIVE Pow2(_)
Pow2(n) == IF n = 0 THEN 1 ELSE 2 * Pow2(n - 1)

\* a >>> n
ShiftRightU(a, n) == a \div Pow2(n)

\* a << n. The operands are bytes and n <= 4, so the result stays below 2^12
\* and the 32-bit wrap of JavaScript's << never happens.
ShiftLeft(a, n) == a * Pow2(n)

RECURSIVE BitAnd(_, _)
\* a & b
BitAnd(a, b) ==
    IF a = 0 \/ b = 0 THEN 0
    ELSE (IF a % 2 = 1 /\ b % 2 = 1 THEN 1 ELSE 0) + 2 * BitAnd(a \div 2, b \div 2)

RECURSIVE BitOr(_, _)
\* a | b
BitOr(a, b) ==
    IF a = 0 THEN b
    ELSE IF b = 0 THEN a
    ELSE (IF a % 2 = 1 \/ b % 2 = 1 THEN 1 ELSE 0) + 2 * BitOr(a \div 2, b \div 2)

\* s[i], 0-based
CharAt(s, i) == SubSeq(s, i + 1, i + 1)

----------------------------------------------------------------------------
(* encodeBase64 *)

base64Alphabet == "ABCDEFGHIJKLMNOPQRSTUVWXYZabcdefghijklmnopqrstuvwxyz0123456789+/"

base64UrlSafeAlphabet == "ABCDEFGHIJKLMNOPQRSTUVWXYZabcdefghijklmnopqrstuvwxyz0123456789-_"

\* 0b111111
SixBits == 63

\* Faulty EncodeGroup: the third character takes c >>> 4 instead of c >>> 6.
EncodeGroup_WrongShift(dictionary, a, b, c) ==
       CharAt(dictionary, ShiftRightU(a, 2))
    \o CharAt(dictionary, BitAnd(BitOr(ShiftLeft(a, 4), ShiftRightU(b, 4)), SixBits))
    \o CharAt(dictionary, BitAnd(BitOr(ShiftLeft(b, 2), ShiftRightU(c, 4)), SixBits))
    \o CharAt(dictionary, BitAnd(c, SixBits))

\* The four characters of one full group a, b, c.
EncodeGroup(dictionary, a, b, c) ==
       CharAt(dictionary, ShiftRightU(a, 2))
    \o CharAt(dictionary, BitAnd(BitOr(ShiftLeft(a, 4), ShiftRightU(b, 4)), SixBits))
    \o CharAt(dictionary, BitAnd(BitOr(ShiftLeft(b, 2), ShiftRightU(c, 6)), SixBits))
    \o CharAt(dictionary, BitAnd(c, SixBits))

RECURSIVE EncodeLoop(_, _, _, _)
\* The for loop: output after the groups starting at index i (0-based), i < limit.
EncodeLoop(buf, dictionary, i, limit) ==
    IF i < limit
    THEN EncodeGroup(dictionary, buf[i + 1], buf[i + 2], buf[i + 3])
            \o EncodeLoop(buf, dictionary, i + 3, limit)
    ELSE ""

\* Faulty EncodeTail: the paddings of the two remainders are exchanged.
EncodeTail_PadSwapped(buf, dictionary, pad, i, remainder) ==
    IF remainder = 1 THEN
        LET a == buf[i + 1] IN
               CharAt(dictionary, ShiftRightU(a, 2))
            \o CharAt(dictionary, BitAnd(ShiftLeft(a, 4), SixBits))
            \o (IF pad THEN "=" ELSE "")
    ELSE IF remainder = 2 THEN
        LET a == buf[i + 1]
            b == buf[i + 2] IN
               CharAt(dictionary, ShiftRightU(a, 2))
            \o CharAt(dictionary, BitAnd(BitOr(ShiftLeft(a, 4), ShiftRightU(b, 4)), SixBits))
            \o CharAt(dictionary, BitAnd(ShiftLeft(b, 2), SixBits))
            \o (IF pad THEN "==" ELSE "")
    ELSE ""

\* The characters of the trailing 1 or 2 bytes, with their padding.
EncodeTail(buf, dictionary, pad, i, remainder) ==
    IF remainder = 1 THEN
        LET a == buf[i + 1] IN
               CharAt(dictionary, ShiftRightU(a, 2))
            \o CharAt(dictionary, BitAnd(ShiftLeft(a, 4), SixBits))
            \o (IF pad THEN "==" ELSE "")
    ELSE IF remainder = 2 THEN
        LET a == buf[i + 1]
            b == buf[i + 2] IN
               CharAt(dictionary, ShiftRightU(a, 2))
            \o CharAt(dictionary, BitAnd(BitOr(ShiftLeft(a, 4), ShiftRightU(b, 4)), SixBits))
            \o CharAt(dictionary, BitAnd(ShiftLeft(b, 2), SixBits))
            \o (IF pad THEN "=" ELSE "")
    ELSE ""

encodeBase64(buf, pad, safe) ==
    LET dictionary == IF safe THEN base64UrlSafeAlphabet ELSE base64Alphabet
        remainder == Len(buf) % 3
        limit == Len(buf) - remainder
    IN  EncodeLoop(buf, dictionary, 0, limit)
            \o EncodeTail(buf, dictionary, pad, limit, remainder)

----------------------------------------------------------------------------
(* JavaScript string and object primitives used by buildImageMarkdown and  *)
(* buildAttachment                                                         *)

Max(a, b) == IF a > b THEN a ELSE b
Min(a, b) == IF a < b THEN a ELSE b

\* s.lastIndexOf(c): the greatest 0-based index of c in s, -1 if there is none.
LastIndexOf(s, c) ==
    LET hits == {i \in 0..(Len(s) - 1) : CharAt(s, i) = c}
    IN  IF hits = {} THEN -1 ELSE CHOOSE i \in hits : \A j \in hits : j <= i

\* s.slice(start, end): a negative index counts from the end of s.
Slice(s, start, end) ==
    LET from == IF start < 0 THEN Max(Len(s) + start, 0) ELSE Min(start, Len(s))
        to == IF end < 0 THEN Max(Len(s) + end, 0) ELSE Min(end, Len(s))
    IN  IF from >= to THEN "" ELSE SubSeq(s, from + 1, to)

\* s.slice(start)
SliceFrom(s, start) == Slice(s, start, Len(s))

\* !s is false: s is neither undefined nor the empty string.
Truthy(s) == s # Undefined /\ s # ""

\* The properties every plain object inherits from Object.prototype.
ObjectPrototypeKeys ==
    { "constructor", "__defineGetter__", "__defineSetter__", "hasOwnProperty",
      "__lookupGetter__", "__lookupSetter__", "isPrototypeOf",
      "propertyIsEnumerable", "toString", "valueOf", "__proto__", "toLocaleString" }

\* key in obj: true of the object's own keys and of the inherited ones.
JsIn(key, obj) == key \in DOMAIN obj \/ key \in ObjectPrototypeKeys

\* Object.entries(obj[key]): the record's entries in insertion order. An
\* inherited property is a function or Object.prototype itself, which has no
\* enumerable own property.
ObjectEntries(obj, key) == IF key \in DOMAIN obj THEN obj[key] ELSE <<>>

\* obj[key] = value
Put(obj, key, value) ==
    [k \in DOMAIN obj \cup {key} |-> IF k = key THEN value ELSE obj[k]]

----------------------------------------------------------------------------
(* Cell metadata. custom and custom.attachments may each be absent; an     *)
(* attachments map takes a name to a record, the sequence of its           *)
(* <<MIME type, payload>> entries in insertion order.                      *)

EmptyStore == [n \in {} |-> <<>>]

\* cell.metadata without custom
NoCustom == [hasCustom |-> FALSE, hasAttachments |-> FALSE, attachments |-> EmptyStore]

\* cell.metadata with custom, without custom.attachments
NoAttachments == [hasCustom |-> TRUE, hasAttachments |-> FALSE, attachments |-> EmptyStore]

\* cell.metadata with custom.attachments = store
WithAttachments(store) ==
    [hasCustom |-> TRUE, hasAttachments |-> TRUE, attachments |-> store]

----------------------------------------------------------------------------
(* buildAttachment *)

\* { 'image/png': b64 }
PngRecord(b64) == << <<"image/png", b64>> >>

\* Faulty InitialName: the extension is left out.
InitialName_NoExtension(filename, filetype) == filename

\* let tempFilename = filename + filetype
InitialName(filename, filetype) == filename \o filetype

\* Faulty SuffixedName: the suffix is one too high, so the suffixes start at 3.
SuffixedName_OffByOne(filename, appendValue, filetype) ==
    filename \o "-" \o ToString(appendValue + 1) \o filetype

\* filename.concat(`-${appendValue}`) + filetype
SuffixedName(filename, appendValue, filetype) ==
    filename \o "-" \o ToString(appendValue) \o filetype

\* appendValue++
NextAppend(appendValue) ==
    IF appendValue < MaxAppend THEN appendValue + 1 ELSE appendValue

\* The loop condition: tempFilename in startingAttachments
LoopCondition(tempFilename, startingAttachments) ==
    JsIn(tempFilename, startingAttachments)

\* objEntries.length: the record under tempFilename has an entry
HasEntries(tempFilename, startingAttachments) ==
    Len(ObjectEntries(startingAttachments, tempFilename)) > 0

\* Faulty PayloadMatches: no stored payload counts as identical.
PayloadMatches_Never(tempFilename, startingAttachments, b64) == FALSE

\* Faulty PayloadMatches: every stored payload counts as identical.
PayloadMatches_Always(tempFilename, startingAttachments, b64) == TRUE

\* const [, attachmentb64] = objEntries[0]; attachmentb64 === b64
PayloadMatches(tempFilename, startingAttachments, b64) ==
    ObjectEntries(startingAttachments, tempFilename)[1][2] = b64

\* The loop is left: its condition is false, or the body breaks.
LoopExits(tempFilename, startingAttachments, b64) ==
    \/ ~LoopCondition(tempFilename, startingAttachments)
    \/ /\ HasEntries(tempFilename, startingAttachments)
       /\ PayloadMatches(tempFilename, startingAttachments, b64)

\* tempFilename after one iteration that stays in the loop.
LoopBodyName(tempFilename, startingAttachments, filename, filetype, appendValue) ==
    IF HasEntries(tempFilename, startingAttachments)
    THEN SuffixedName(filename, appendValue, filetype)
    ELSE tempFilename

\* outputMetadata when buildAttachment returns, written under tempFilename.
\* Without custom, or without custom.attachments, a new attachments map is
\* made; otherwise the entry is set in the existing one.
OutputMetadata(meta, tempFilename, b64) ==
    IF ~meta.hasCustom \/ ~meta.hasAttachments
    THEN WithAttachments(Put(EmptyStore, tempFilename, PngRecord(b64)))
    ELSE WithAttachments(Put(meta.attachments, tempFilename, PngRecord(b64)))

\* cell.metadata when buildAttachment returns. outputMetadata is a shallow
\* copy ({ ...cell.metadata }): a custom object it did not create is the
\* cell's own, so what is written into it is written into the cell.
CellMetadataAfter(meta, tempFilename, b64) ==
    IF ~meta.hasCustom
    THEN meta
    ELSE OutputMetadata(meta, tempFilename, b64)

----------------------------------------------------------------------------
(* buildImageMarkdown: one paste or drop. The provider methods              *)
(* provideDocumentPasteEdits and provideDocumentDropEdits, once their       *)
(* setting is on, only forward to it.                                       *)

\* The operations that may be in flight together.
Ops == {1, 2}

\* An operation that has not started. pc is the operation's position:
\*   idle      not started
\*   awaiting  suspended at await dataItem.asFile()?.data()
\*   loop      inside the collision loop of buildAttachment
\*   computed  returned { snippet, edit }
\*   applied   the host has applied the edit
\*   declined  returned undefined
\* before and after record cell.metadata as buildAttachment was called and as
\* it returned.
IdleOp ==
    [pc |-> "idle", input |-> NoInput, filename |-> "", filetype |-> "", b64 |-> "",
     tempFilename |-> "", appendValue |-> 0,
     before |-> NoCustom, after |-> NoCustom, metadata |-> NoCustom, chosen |-> ""]

\* const separatorIndex = givenFilename?.lastIndexOf('.')
SeparatorIndex(givenFilename) == LastIndexOf(givenFilename, ".")

\* const filename = givenFilename?.slice(0, separatorIndex)
FilenameOf(givenFilename) == Slice(givenFilename, 0, SeparatorIndex(givenFilename))

\* const filetype = givenFilename?.slice(separatorIndex)
FiletypeOf(givenFilename) == SliceFrom(givenFilename, SeparatorIndex(givenFilename))

\* The checks after the await: one of them returns undefined.
Declines(input) ==
    \/ ~input.hasFile
    \/ ~Truthy(input.name)
    \/ ~Truthy(FilenameOf(input.name))
    \/ ~Truthy(FiletypeOf(input.name))
    \/ ~input.cellFound

\* buildAttachment returns tempFilename for operation i, and buildImageMarkdown
\* wraps the returned metadata in the edit and the name in the snippet. The
\* edit carries the metadata as it is at this point.
Return(i, op, tempFilename) ==
    /\ ops' = [ops EXCEPT ![i] =
            [op EXCEPT !.pc = "computed",
                       !.tempFilename = tempFilename,
                       !.after = CellMetadataAfter(cellMeta, tempFilename, op.b64),
                       !.metadata = OutputMetadata(cellMeta, tempFilename, op.b64),
                       !.chosen = tempFilename]]
    /\ cellMeta' = CellMetadataAfter(cellMeta, tempFilename, op.b64)
    /\ running' = 0

\* A provider method (provideDocumentPasteEdits, provideDocumentDropEdits)
\* and buildImageMarkdown up to its await, on the transfer input.
StartWith(i, input) ==
    /\ ops[i].pc = "idle"
    /\ running = 0
    /\ ops' = [ops EXCEPT ![i] =
            [IdleOp EXCEPT !.pc = IF input.enabled /\ input.hasItem
                                  THEN "awaiting" ELSE "declined",
                           !.input = input]]
    /\ UNCHANGED <<buffer, padded, urlSafe, output, cellMeta, running, pasted, raced>>

Start(i) == \E input \in TransferInputs : StartWith(i, input)

\* buildImageMarkdown from its await on: the checks, encodeBase64, and
\* buildAttachment up to its collision loop, or to its return when the cell
\* has no custom or no attachments map.
Resume(i) ==
    /\ ops[i].pc = "awaiting"
    /\ running = 0
    /\ UNCHANGED <<buffer, padded, urlSafe, output, pasted>>
    /\ IF Declines(ops[i].input)
       THEN /\ ops' = [ops EXCEPT ![i].pc = "declined"]
            /\ UNCHANGED <<cellMeta, running, raced>>
       ELSE LET input == ops[i].input
                filename == FilenameOf(input.name)
                filetype == FiletypeOf(input.name)
                op == [ops[i] EXCEPT !.filename = filename,
                                     !.filetype = filetype,
                                     !.b64 = encodeBase64(input.bytes, TRUE, FALSE),
                                     !.tempFilename = InitialName(filename, filetype),
                                     !.appendValue = 2,
                                     !.before = cellMeta]
            IN  /\ raced' = (raced \/ \E j \in DOMAIN ops \ {i} : ops[j].pc = "computed")
                /\ IF ~cellMeta.hasCustom \/ ~cellMeta.hasAttachments
                   THEN Return(i, op, op.tempFilename)
                   ELSE /\ ops' = [ops EXCEPT ![i] = [op EXCEPT !.pc = "loop"]]
                        /\ running' = i
                        /\ UNCHANGED cellMeta

\* One evaluation of the loop condition of buildAttachment, with the body or
\* with what follows the loop.
LoopStep(i) ==
    /\ ops[i].pc = "loop"
    /\ running = i
    /\ UNCHANGED <<buffer, padded, urlSafe, output, pasted, raced>>
    /\ LET op == ops[i]
           startingAttachments == cellMeta.attachments
       IN  IF LoopExits(op.tempFilename, startingAttachments, op.b64)
           THEN Return(i, op, op.tempFilename)
           ELSE /\ ops' = [ops EXCEPT ![i] =
                        [op EXCEPT !.tempFilename =
                                        LoopBodyName(op.tempFilename, startingAttachments,
                                                     op.filename, op.filetype, op.appendValue),
                                   !.appendValue = NextAppend(op.appendValue)]]
                /\ UNCHANGED <<cellMeta, running>>

\* What an applied operation leaves in the history.
PastedEntry(op) ==
    [given |-> op.input.name, filename |-> op.filename, filetype |-> op.filetype,
     name |-> op.chosen, b64 |-> op.b64]

\* The host applies the operation's edit: NotebookEdit.updateCellMetadata
\* replaces the cell's metadata by the edit's.
Apply(i) ==
    /\ ops[i].pc = "computed"
    /\ running = 0
    /\ cellMeta' = ops[i].metadata
    /\ ops' = [ops EXCEPT ![i].pc = "applied"]
    /\ pasted' = pasted \cup {PastedEntry(ops[i])}
    /\ UNCHANGED <<buffer, padded, urlSafe, output, running, raced>>

----------------------------------------------------------------------------
(* Two operations on one cell, in every interleaving *)

\* Payloads of the records a cell may hold when the operations start: the
\* encoding of the first of PayloadBytes, and one no transfer carries.
PayloadX == "TQ=="
PayloadZ == "Wg=="

\* Records of the initial attachments maps: without entries, with one
\* image/png entry, and with an entry of another MIME type first.
InitialRecords ==
    { <<>>,
      PngRecord(PayloadX),
      PngRecord(PayloadZ),
      << <<"image/jpeg", PayloadX>>, <<"image/png", PayloadZ>> >> }

InitialNames == {"a.p", "a-2.p"}

InitialStores ==
    UNION { [names -> InitialRecords] : names \in SUBSET InitialNames }

InitialMetas ==
    {NoCustom, NoAttachments} \cup {WithAttachments(store) : store \in InitialStores}

Init ==
    /\ buffer = <<>>
    /\ padded = TRUE
    /\ urlSafe = FALSE
    /\ output = Undefined
    /\ cellMeta \in InitialMetas
    /\ ops = [i \in Ops |-> IdleOp]
    /\ running = 0
    /\ pasted = {}
    /\ raced = FALSE

Next ==
    \E i \in Ops :
        \/ Start(i)
        \/ Resume(i)
        \/ LoopStep(i)
        \/ Apply(i)

Spec == Init /\ [][Next]_vars

\* The collision loop is synchronous code: once entered it keeps running.
FairSpec == Spec /\ \A i \in Ops : WF_vars(LoopStep(i))

----------------------------------------------------------------------------
(* Properties of buildAttachment *)

\* buildAttachment has returned for operation i.
Returned(i) == ops[i].pc \in {"computed", "applied"}

\* Operation i called buildAttachment on a cell with an attachments map.
HadStore(i) == ops[i].before.hasCustom /\ ops[i].before.hasAttachments

\* The n-th name of the sequence base+ext, base-2+ext, base-3+ext, ...
SequenceName(base, ext, n) ==
    IF n = 1 THEN base \o ext ELSE base \o "-" \o ToString(n) \o ext

\* A name the claim lets buildAttachment settle on: not a key of the store, or
\* a key whose first MIME entry's payload is b64.
Acceptable(store, name, b64) ==
    \/ name \notin DOMAIN store
    \/ /\ Len(store[name]) > 0
       /\ store[name][1][2] = b64

\* The position in the sequence of the first acceptable name; a store of k
\* keys has one among the first k + 1.
FirstAcceptable(store, base, ext, b64) ==
    LET range == 1..(Cardinality(DOMAIN store) + 1)
        ok == {n \in range : Acceptable(store, SequenceName(base, ext, n), b64)}
    IN  CHOOSE n \in ok : \A m \in ok : n <= m

\* Every record of the store has at least one MIME entry.
EveryRecordHasEntry(store) == \A n \in DOMAIN store : Len(store[n]) > 0

\* C1: on a store in which every record has at least one MIME entry, the name
\* buildAttachment returns is the first of base+ext, base-2+ext, base-3+ext,
\* ... that is not a key of the store or is a key whose first MIME entry's
\* payload equals b64. (The returned value; that the call returns is C8.)
C1_FirstAcceptableName ==
    \A i \in Ops :
        (Returned(i) /\ HadStore(i) /\ EveryRecordHasEntry(ops[i].before.attachments))
            => LET op == ops[i]
                   store == op.before.attachments
               IN  op.chosen = SequenceName(op.filename, op.filetype,
                                    FirstAcceptable(store, op.filename, op.filetype, op.b64))

\* The names a.p and a-2.p were taken by other payloads and a-3.p was
\* returned.
C1_Witness ==
    \E i \in Ops :
        /\ Returned(i) /\ HadStore(i)
        /\ EveryRecordHasEntry(ops[i].before.attachments)
        /\ DOMAIN ops[i].before.attachments = {"a.p", "a-2.p"}
        /\ ops[i].chosen = "a-3.p"

\* C2: without a custom container or without an attachments map,
\* buildAttachment returns base+ext and the returned metadata's attachments
\* map holds exactly the entry base+ext -> {image/png: b64}.
C2_FreshStore ==
    \A i \in Ops :
        (Returned(i) /\ ~HadStore(i))
            => LET op == ops[i]
               IN  /\ op.chosen = op.filename \o op.filetype
                   /\ op.metadata.hasCustom /\ op.metadata.hasAttachments
                   /\ DOMAIN op.metadata.attachments = {op.filename \o op.filetype}
                   /\ op.metadata.attachments[op.filename \o op.filetype]
                        = << <<"image/png", op.b64>> >>

\* A cell with custom but no attachments map received its first attachment.
C2_Witness ==
    \E i \in Ops :
        /\ Returned(i)
        /\ ops[i].before = NoAttachments
        /\ ops[i].chosen = "a.p"
        /\ DOMAIN ops[i].metadata.attachments = {"a.p"}

\* The entries of a record whose MIME type is not image/png.
OtherMimeEntries(record) ==
    {record[k] : k \in {j \in 1..Len(record) : record[j][1] # "image/png"}}

\* C3: buildAttachment leaves every pre-existing attachment untouched: a
\* record under another name than the chosen one is identical afterwards, and
\* no record, the one under the chosen name included, loses or changes a MIME
\* entry other than image/png.
C3_ExistingUntouched ==
    \A i \in Ops :
        (Returned(i) /\ HadStore(i))
            => LET old == ops[i].before.attachments
                   new == ops[i].metadata.attachments
               IN  \A n \in DOMAIN old :
                       /\ n \in DOMAIN new
                       /\ n # ops[i].chosen => new[n] = old[n]
                       /\ OtherMimeEntries(old[n]) \subseteq OtherMimeEntries(new[n])

\* C4: buildAttachment works on a snapshot: the cell's own metadata is after
\* the call what it was before it, in all three branches.
C4_CellUnchanged ==
    \A i \in Ops : Returned(i) => ops[i].after = ops[i].before

\* C5: a suggested filename without a '.' makes buildImageMarkdown return
\* undefined.
C5_DotlessDeclined ==
    \A i \in Ops :
        (/\ ops[i].pc \notin {"idle", "awaiting"}
         /\ ops[i].input.hasFile
         /\ Truthy(ops[i].input.name)
         /\ \A k \in 0..(Len(ops[i].input.name) - 1) : CharAt(ops[i].input.name, k) # ".")
            => ops[i].pc = "declined"

\* C8: every invocation of buildAttachment terminates. Whether the collision
\* loop goes on depends on the candidate name alone (the store and the
\* payload do not change inside it), so it terminates exactly if every
\* iteration that stays in the loop moves to a new candidate.
C8_LoopAdvances ==
    [][\A i \in DOMAIN ops :
            (ops[i].pc = "loop" /\ ops'[i].pc = "loop")
                => ops'[i].tempFilename # ops[i].tempFilename]_vars

\* The same as a liveness property of FairSpec: an operation in the collision
\* loop leaves it.
LoopTerminates ==
    \A i \in Ops : (ops[i].pc = "loop") ~> (ops[i].pc = "computed")

----------------------------------------------------------------------------
(* Properties of two racing operations *)

\* The cell holds operation i's payload under the name its snippet references.
HoldsOwnPayload(i) ==
    /\ cellMeta.hasCustom /\ cellMeta.hasAttachments
    /\ ops[i].chosen \in DOMAIN cellMeta.attachments
    /\ cellMeta.attachments[ops[i].chosen] = << <<"image/png", ops[i].b64>> >>

BothApplied == \A i \in Ops : ops[i].pc = "applied"

DistinctPayloads == \A i, j \in Ops : i # j => ops[i].b64 # ops[j].b64

\* C10 as stated: in every interleaving, once both edits are applied the cell
\* holds each operation's payload under the name its snippet references.
C10_NoLostAttachment ==
    (BothApplied /\ DistinctPayloads) => \A i \in Ops : HoldsOwnPayload(i)

\* C10 amended: the same, for the interleavings in which no operation reads
\* the cell metadata while the other's edit is computed but not yet applied.
C10_NoLostAttachmentSerial ==
    (BothApplied /\ DistinctPayloads /\ ~raced) => \A i \in Ops : HoldsOwnPayload(i)

\* Two operations with the same suggested filename and distinct payloads ran
\* one after the other on a cell without custom, and both are applied.
C10_Witness ==
    /\ BothApplied /\ DistinctPayloads /\ ~raced
    /\ \A i \in Ops : ops[i].input.name = "a.p" /\ HoldsOwnPayload(i)
    /\ \E i \in Ops : ops[i].before = NoCustom /\ ops[i].chosen = "a.p"
    /\ \E i \in Ops : ops[i].chosen = "a-2.p"

----------------------------------------------------------------------------
(* Operations one after the other on a cell that starts without            *)
(* attachments, all with the same suggested filename                       *)

\* The one slot the sequential operations run in, one at a time.
SeqOps == {1}

\* Cells without attachments: no custom, no attachments map, an empty map.
EmptyMetas == {NoCustom, NoAttachments, WithAttachments(EmptyStore)}

InitSeq ==
    /\ buffer = <<>>
    /\ padded = TRUE
    /\ urlSafe = FALSE
    /\ output = Undefined
    /\ cellMeta \in EmptyMetas
    /\ ops = [i \in SeqOps |-> IdleOp]
    /\ running = 0
    /\ pasted = {}
    /\ raced = FALSE

\* An operation starts with the suggested filename of the applied ones.
StartSeq(i) ==
    \E input \in TransferInputs \cup InheritedInputs :
        /\ \A p \in pasted : p.given = input.name
        /\ StartWith(i, input)

\* The operation is over (applied or declined): the next one may start.
Recycle(i) ==
    /\ ops[i].pc \in {"applied", "declined"}
    /\ ops' = [ops EXCEPT ![i] = IdleOp]
    /\ UNCHANGED <<buffer, padded, urlSafe, output, cellMeta, running, pasted, raced>>

NextSeq ==
    \E i \in SeqOps :
        \/ StartSeq(i)
        \/ Resume(i)
        \/ LoopStep(i)
        \/ Apply(i)
        \/ Recycle(i)

SpecSeq == InitSeq /\ [][NextSeq]_vars

\* The collision loop is synchronous code: once entered it keeps running.
FairSpecSeq == SpecSeq /\ \A i \in SeqOps : WF_vars(LoopStep(i))

\* Termination of the collision loop as a liveness property of FairSpecSeq.
LoopTerminatesSeq ==
    \A i \in SeqOps : (ops[i].pc = "loop") ~> (ops[i].pc = "computed")

\* No operation is between reading the cell and the application of its edit.
Quiescent == \A i \in SeqOps : ops[i].pc \notin {"loop", "computed"}

\* C9: from a cell with no attachments, after operations that all carry the
\* suggested filename base+ext, each applied before the next starts, the keys
\* are exactly base+ext, base-2+ext, ..., base-k+ext for k the number of
\* distinct payloads pasted, no two keys hold the same payload, and every name
\* an operation returned still maps to that operation's payload.
C9_SequentialPastes ==
    Quiescent =>
        LET store == cellMeta.attachments
            k == Cardinality({p.b64 : p \in pasted})
        IN  /\ pasted = {} => store = EmptyStore
            /\ \A p \in pasted :
                /\ p.filename \o p.filetype = p.given
                /\ DOMAIN store = {SequenceName(p.filename, p.filetype, n) : n \in 1..k}
                /\ p.name \in DOMAIN store
                /\ store[p.name] = << <<"image/png", p.b64>> >>
            /\ \A n1, n2 \in DOMAIN store : n1 # n2 => store[n1] # store[n2]

\* Three distinct payloads were pasted as a.p, each also a second time: the
\* keys are a.p, a-2.p and a-3.p.
C9_Witness ==
    /\ Quiescent
    /\ Cardinality(pasted) = 3
    /\ \A p \in pasted : p.given = "a.p"
    /\ DOMAIN cellMeta.attachments = {"a.p", "a-2.p", "a-3.p"}
    /\ ops[1].pc = "applied" /\ ops[1].chosen = "a.p"

----------------------------------------------------------------------------
(* The encoder alone: every call of encodeBase64 on the sampled inputs *)

\* Bytes filling the positions of a sampled sequence that do not range over
\* all of Byte.
SampleBytes == {0, 165}

\* Byte sequences of length 0..MaxLen in which one position ranges over every
\* byte value and the others over SampleBytes.
B64Inputs ==
    {<<>>} \cup
    UNION { { [s EXCEPT ![k] = v] : s \in [1..n -> SampleBytes], k \in 1..n, v \in Byte }
            : n \in 1..MaxLen }

\* No paste/drop operation exists while the encoder is exercised alone.
NoOps == <<>>

InitB64 ==
    /\ buffer \in B64Inputs
    /\ padded \in BOOLEAN
    /\ urlSafe \in BOOLEAN
    /\ output = Undefined
    /\ cellMeta = NoCustom
    /\ ops = NoOps
    /\ running = 0
    /\ pasted = {}
    /\ raced = FALSE

\* One call encodeBase64(buffer, padded, urlSafe).
Encode ==
    /\ output = Undefined
    /\ ops = NoOps
    /\ output' = encodeBase64(buffer, padded, urlSafe)
    /\ UNCHANGED <<buffer, padded, urlSafe, cellMeta, ops, running, pasted, raced>>

NextB64 == Encode

SpecB64 == InitB64 /\ [][NextB64]_vars

----------------------------------------------------------------------------
(* A standard padded base64 decoder (RFC 4648, alphabet A-Z a-z 0-9 + /),  *)
(* the companion the round-trip property is stated against.                *)

Invalid == "<invalid>"

\* Value of a character of the standard alphabet, -1 for any other character.
SextetOf(c) ==
    IF \E i \in 0..SixBits : CharAt(base64Alphabet, i) = c
    THEN CHOOSE i \in 0..SixBits : CharAt(base64Alphabet, i) = c
    ELSE -1

\* The bytes of one group of four characters, Invalid if it is malformed.
DecodeQuad(q, last) ==
    LET v1 == SextetOf(CharAt(q, 0))
        v2 == SextetOf(CharAt(q, 1))
        v3 == SextetOf(CharAt(q, 2))
        v4 == SextetOf(CharAt(q, 3))
    IN  IF v1 < 0 \/ v2 < 0 THEN Invalid
        ELSE IF last /\ CharAt(q, 2) = "=" /\ CharAt(q, 3) = "=" THEN
            IF v2 % 16 # 0 THEN Invalid ELSE <<v1 * 4 + v2 \div 16>>
        ELSE IF v3 < 0 THEN Invalid
        ELSE IF last /\ CharAt(q, 3) = "=" THEN
            IF v3 % 4 # 0 THEN Invalid
            ELSE <<v1 * 4 + v2 \div 16, (v2 % 16) * 16 + v3 \div 4>>
        ELSE IF v4 < 0 THEN Invalid
        ELSE <<v1 * 4 + v2 \div 16, (v2 % 16) * 16 + v3 \div 4, (v3 % 4) * 64 + v4>>

RECURSIVE DecodeFrom(_, _)
DecodeFrom(s, i) ==
    IF i >= Len(s) THEN <<>>
    ELSE LET head == DecodeQuad(SubSeq(s, i + 1, i + 4), i + 4 = Len(s))
             rest == DecodeFrom(s, i + 4)
         IN  IF head = Invalid \/ rest = Invalid THEN Invalid ELSE head \o rest

decodeBase64Standard(s) ==
    IF Len(s) % 4 # 0 THEN Invalid ELSE DecodeFrom(s, 0)

\* The number of '=' characters of s.
RECURSIVE CountPad(_)
CountPad(s) ==
    IF s = "" THEN 0
    ELSE (IF CharAt(s, 0) = "=" THEN 1 ELSE 0) + CountPad(SubSeq(s, 2, Len(s)))

----------------------------------------------------------------------------
(* Properties of the encoder *)

\* C6: decoding encodeBase64(b) (default arguments: padded, standard
\* alphabet) with a standard padded base64 decoder yields exactly b.
C6_RoundTrip ==
    (output # Undefined /\ padded /\ ~urlSafe)
        => decodeBase64Standard(output) = buffer

\* A padded standard encoding of a sequence with a full group and a trailing
\* byte of value 255 has been produced.
C6_Witness ==
    /\ output # Undefined /\ padded /\ ~urlSafe
    /\ Len(buffer) = 4 /\ buffer[4] = MaxByte
    /\ decodeBase64Standard(output) = buffer

\* C7: the output has ceil(n/3)*4 characters when padded, and
\* floor(n/3)*4 + (r = 0 ? 0 : r + 1) characters none of which is '=' when
\* not padded (n the input length, r = n mod 3); the empty input yields "".
C7_Length ==
    output # Undefined =>
        LET n == Len(buffer)
            r == n % 3
        IN  /\ padded => Len(output) = ((n + 2) \div 3) * 4
            /\ ~padded => /\ Len(output) = (n \div 3) * 4 + (IF r = 0 THEN 0 ELSE r + 1)
                          /\ CountPad(output) = 0
            /\ n = 0 => output = ""

\* An unpadded encoding of a sequence with a full group and one trailing byte
\* has been produced: 4 + 2 characters.
C7_Witness ==
    /\ output # Undefined /\ ~padded
    /\ Len(buffer) = 4
    /\ Len(output) = 6

====
